---- MODULE Spec2Model ----
(***************************************************************************)
(* Crypto tracker: the background refresh loop of app.py, the /crypto-data *)
(* route, fetch_crypto_data and analyze_crypto_data of crypto_service.py   *)
(* and GoogleSheetsService.update_sheet.                                   *)
(*                                                                         *)
(* Python values are tagged records: a JSON number is [num |-> n], a       *)
(* string [str |-> s], an array [list |-> <<...>>], an object              *)
(* [dict |-> f] with f a function from its keys.  A call's outcome is      *)
(* [ret |-> v] (it returned v) or [exc |-> e] (it raised e).  A float      *)
(* computed by pandas is the exact rational [p |-> p, q |-> q] in lowest   *)
(* terms, or NaN; binary rounding is not modelled.                         *)
(***************************************************************************)
EXTENDS Integers, Sequences, FiniteSets, TLC

VARIABLES
    clock,             \* pd.Timestamp.now() / time.time(), in ticks
    batch,             \* SpecAnalyze: the argument of analyze_crypto_data
    result,            \* SpecAnalyze: the outcome of the call
    prev_result,       \* SpecAnalyze: the outcome of the call before it
    upstream,          \* SpecHttp: how the provider answers the route's request
    fetched,           \* SpecHttp: the outcome of the route's fetch_crypto_data()
    http_response,     \* SpecHttp: what get_crypto_data answered
    sheets_service,    \* app.py: the module-level service, or None
    pc,                \* background_update: where the thread is
    error_count,       \* background_update: local error_count
    crypto_data,       \* background_update: local crypto_data
    analysis_results,  \* background_update: local analysis_results
    slept,             \* background_update: seconds of the last time.sleep
    sheet_data,        \* update_sheet: local sheet_data (header and rows)
    sheet,             \* the spreadsheet: cleared/written rows of Sheet1
    cyc,               \* history of the current cycle of background_update
    fail_run,          \* history: consecutive cycles that ended in a failure
    fa_fail_run,       \* history: consecutive cycles that failed at fetch/analyze
    us_pc,             \* update_sheet called outside the thread: where it is
    us_arg,            \* that call's argument crypto_data
    us_sheet_data,     \* that call's local sheet_data (header and rows)
    us_last            \* history: how far that call got, and how it ended

vars == <<clock, batch, result, upstream, fetched, http_response, sheets_service,
          pc, error_count, crypto_data, analysis_results, slept, sheet_data,
          sheet, cyc, fail_run, fa_fail_run, prev_result, us_pc, us_arg,
          us_sheet_data, us_last>>

---------------------------------------------------------------------------
(* Bounds of the model *)

\* longest list of asset records a provider payload holds
MaxLen == 3
\* the clock stops ticking here
MaxClock == 2

---------------------------------------------------------------------------
(* Python values and outcomes *)

Num(n) == [num |-> n]
Str(s) == [str |-> s]
List(s) == [list |-> s]
Dict(f) == [dict |-> f]
NaN == [nan |-> TRUE]

IsNum(v) == "num" \in DOMAIN v
IsStr(v) == "str" \in DOMAIN v
IsList(v) == "list" \in DOMAIN v
IsDict(v) == "dict" \in DOMAIN v
IsNaN(v) == "nan" \in DOMAIN v

Return(v) == [ret |-> v]
Raise(e) == [exc |-> e]
Raised(o) == "exc" \in DOMAIN o

\* Python truth value: `not data` is ~Truthy(data)
Truthy(v) ==
    IF IsList(v) THEN Len(v.list) > 0
    ELSE IF IsDict(v) THEN DOMAIN v.dict # {}
    ELSE IF IsNum(v) THEN v.num # 0
    ELSE IF IsStr(v) THEN v.str # ""
    ELSE FALSE

RECURSIVE GCD(_, _)
GCD(a, b) == IF b = 0 THEN a ELSE GCD(b, a % b)

\* the float n/d, d > 0, n >= 0
Flt(n, d) == LET g == GCD(n, d) IN [p |-> n \div g, q |-> d \div g]

RECURSIVE SumSeq(_)
SumSeq(s) == IF s = <<>> THEN 0 ELSE Head(s) + SumSeq(Tail(s))

RECURSIVE Insert(_, _)
Insert(x, s) ==
    IF s = <<>> THEN <<x>>
    ELSE IF x <= Head(s) THEN <<x>> \o s
    ELSE <<Head(s)>> \o Insert(x, Tail(s))

RECURSIVE Sorted(_)
Sorted(s) == IF s = <<>> THEN <<>> ELSE Insert(Head(s), Sorted(Tail(s)))

RECURSIVE UnionKeys(_)
UnionKeys(s) ==
    IF s = <<>> THEN {} ELSE DOMAIN Head(s).dict \cup UnionKeys(Tail(s))

---------------------------------------------------------------------------
(* pandas, as far as crypto_service.py uses it *)

\* pd.DataFrame(data): a list of dicts gives one column per key that occurs,
\* NaN where a record lacks the key; a list of scalars gives the one column
\* "0"; a scalar, or a dict of scalars, is refused with ValueError.
DataFrame(data) ==
    IF ~IsList(data) THEN Raise("ValueError")
    ELSE IF \A i \in 1..Len(data.list) : IsDict(data.list[i])
    THEN LET cols == UnionKeys(data.list)
         IN Return([columns |-> cols,
                    rows |-> [i \in 1..Len(data.list) |->
                                [c \in cols |->
                                   IF c \in DOMAIN data.list[i].dict
                                   THEN data.list[i].dict[c] ELSE NaN]]])
    ELSE Return([columns |-> {"0"},
                 rows |-> [i \in 1..Len(data.list) |-> [c \in {"0"} |-> data.list[i]]]])

\* df[col] = v
SetColumn(df, col, v) ==
    [columns |-> df.columns \cup {col},
     rows |-> [i \in 1..Len(df.rows) |->
                 [c \in df.columns \cup {col} |-> IF c = col THEN v ELSE df.rows[i][c]]]]

\* df[col]
Column(df, col) == [i \in 1..Len(df.rows) |-> df.rows[i][col]]

\* a column holding a string has dtype object; its reductions raise TypeError
IsObject(series) == \E i \in 1..Len(series) : IsStr(series[i])

RECURSIVE Values(_)
\* the numbers of a series, its NaN cells skipped (skipna=True)
Values(series) ==
    IF series = <<>> THEN <<>>
    ELSE IF IsNum(Head(series)) THEN <<Head(series).num>> \o Values(Tail(series))
    ELSE Values(Tail(series))

SeriesSum(series) ==
    IF IsObject(series) THEN Raise("TypeError")
    ELSE Return(Flt(SumSeq(Values(series)), 1))

SeriesMean(series) ==
    IF IsObject(series) THEN Raise("TypeError")
    ELSE LET v == Values(series)
         IN Return(IF v = <<>> THEN NaN ELSE Flt(SumSeq(v), Len(v)))

\* SeriesMedian taking the upper of the two middle values of an even-length
\* series instead of their average
SeriesMedian_UpperMiddle(series) ==
    IF IsObject(series) THEN Raise("TypeError")
    ELSE LET v == Sorted(Values(series))
             n == Len(v)
         IN Return(IF n = 0 THEN NaN ELSE Flt(v[n \div 2 + 1], 1))

SeriesMedian(series) ==
    IF IsObject(series) THEN Raise("TypeError")
    ELSE LET v == Sorted(Values(series))
             n == Len(v)
         IN Return(IF n = 0 THEN NaN
                   ELSE IF n % 2 = 1 THEN Flt(v[(n + 1) \div 2], 1)
                   ELSE Flt(v[n \div 2] + v[n \div 2 + 1], 2))

SeriesMin(series) ==
    IF IsObject(series) THEN Raise("TypeError")
    ELSE LET v == Sorted(Values(series))
         IN Return(IF v = <<>> THEN NaN ELSE Flt(v[1], 1))

SeriesMax(series) ==
    IF IsObject(series) THEN Raise("TypeError")
    ELSE LET v == Sorted(Values(series))
         IN Return(IF v = <<>> THEN NaN ELSE Flt(v[Len(v)], 1))

RECURSIVE GCDSeq(_)
GCDSeq(s) == IF s = <<>> THEN 0 ELSE GCD(Head(s), GCDSeq(Tail(s)))

RECURSIVE SumSqDev(_, _, _)
\* sum over x in s of (n*x - total)^2
SumSqDev(s, n, total) ==
    IF s = <<>> THEN 0
    ELSE (n * Head(s) - total) * (n * Head(s) - total) + SumSqDev(Tail(s), n, total)

\* Series.std(): ddof = 1, NaN for fewer than two values.  The value is
\* scale * sqrt(radicand), the radicand the sample variance of the values
\* divided by their common factor.
SeriesStd(series) ==
    IF IsObject(series) THEN Raise("TypeError")
    ELSE LET v == Values(series)
             n == Len(v)
             g == IF GCDSeq(v) = 0 THEN 1 ELSE GCDSeq(v)
             y == [i \in 1..n |-> v[i] \div g]
         IN Return(IF n <= 1 THEN NaN
                   ELSE [scale |-> g,
                         radicand |-> Flt(SumSqDev(y, n, SumSeq(y)), n * n * (n - 1))])

---------------------------------------------------------------------------
(* crypto_service.analyze_crypto_data *)

required_columns ==
    <<"market_cap", "current_price", "price_change_percentage_24h",
      "price_change_percentage_7d", "name", "symbol">>

\* the default a missing column is filled with
FillValue(col) ==
    IF col \in {"price_change_percentage_24h", "price_change_percentage_7d"} THEN Num(0)
    ELSE IF col = "market_cap" THEN Num(0)
    ELSE Str("N/A")

RECURSIVE FillFrom(_, _)
FillFrom(df, k) ==
    IF k > Len(required_columns) THEN df
    ELSE FillFrom(IF required_columns[k] \in df.columns THEN df
                  ELSE SetColumn(df, required_columns[k], FillValue(required_columns[k])),
                  k + 1)

\* lines 78-89: columns no record has are added with their default
FillMissingColumns(df) == FillFrom(df, 1)

\* the first exception of a sequence of outcomes evaluated in order, or "none"
RECURSIVE FirstExc(_)
FirstExc(os) ==
    IF os = <<>> THEN "none"
    ELSE IF Raised(Head(os)) THEN Head(os).exc
    ELSE FirstExc(Tail(os))

\* AnalysisBody with the market-cap insights in a try block of their own:
\* when they fail the price statistics are returned without them
AnalysisBody_CapsOptional(df, now) ==
    LET price == Column(df, "current_price")
        cap == Column(df, "market_cap")
        ps == <<SeriesMean(price), SeriesMedian(price), SeriesStd(price),
                SeriesMin(price), SeriesMax(price)>>
        cs == <<SeriesSum(cap), SeriesMean(cap), SeriesMedian(cap)>>
        stats == [mean_price |-> ps[1].ret, median_price |-> ps[2].ret,
                  price_std_dev |-> ps[3].ret, min_price |-> ps[4].ret,
                  max_price |-> ps[5].ret]
    IN IF FirstExc(ps) # "none" THEN Raise(FirstExc(ps))
       ELSE IF FirstExc(cs) # "none"
       THEN Return([price_statistics |-> stats, timestamp |-> now])
       ELSE Return([price_statistics |-> stats,
                    market_cap_insights |->
                        [total_market_cap |-> cs[1].ret, mean_market_cap |-> cs[2].ret,
                         median_market_cap |-> cs[3].ret],
                    timestamp |-> now])

\* lines 91-114: the body of the try block
AnalysisBody(df, now) ==
    LET price == Column(df, "current_price")
        cap == Column(df, "market_cap")
        os == <<SeriesMean(price), SeriesMedian(price), SeriesStd(price),
                SeriesMin(price), SeriesMax(price),
                SeriesSum(cap), SeriesMean(cap), SeriesMedian(cap)>>
    IN IF FirstExc(os) # "none" THEN Raise(FirstExc(os))
       ELSE Return([price_statistics |->
                        [mean_price |-> os[1].ret, median_price |-> os[2].ret,
                         price_std_dev |-> os[3].ret, min_price |-> os[4].ret,
                         max_price |-> os[5].ret],
                    market_cap_insights |->
                        [total_market_cap |-> os[6].ret, mean_market_cap |-> os[7].ret,
                         median_market_cap |-> os[8].ret],
                    timestamp |-> now])

\* ArgumentAfterAnalysis filling the defaults into the caller's records
\* (the frame built without a copy)
ArgumentAfterAnalysis_FilledInPlace(data) ==
    IF IsList(data) /\ \A i \in 1..Len(data.list) : IsDict(data.list[i])
    THEN List([i \in 1..Len(data.list) |->
                 Dict([c \in DOMAIN data.list[i].dict \cup {"market_cap"} |->
                         IF c \in DOMAIN data.list[i].dict THEN data.list[i].dict[c]
                         ELSE Num(0)])])
    ELSE data

\* what the call leaves in its argument: line 63 builds the frame df from
\* the list, and lines 85-89 assign to df only
ArgumentAfterAnalysis(data) == data

analyze_crypto_data(data, now) ==
    IF ~Truthy(data)
    THEN Return([error |-> "No data available for analysis", timestamp |-> now])
    ELSE LET made == DataFrame(data)
         IN IF Raised(made)
            THEN Return([error |-> "Failed to process data", details |-> made.exc,
                         timestamp |-> now])
            ELSE LET body == AnalysisBody(FillMissingColumns(made.ret), now)
                 IN IF Raised(body)
                    THEN Return([error |-> "Analysis failed", details |-> body.exc,
                                 timestamp |-> now])
                    ELSE body

---------------------------------------------------------------------------
(* crypto_service.fetch_crypto_data *)

\* what the provider sends as a body that is not JSON
InvalidJson == [invalid |-> TRUE]

\* requests.exceptions.RequestException and its subclasses
RequestExceptions == {"ConnectionError", "Timeout", "HTTPError", "JSONDecodeError"}

\* lines 16-38: the body of the try block, on one exchange x with the provider
FetchBody(x) ==
    IF x.kind # "response" THEN Raise(x.kind)                     \* requests.get
    ELSE IF x.status >= 400 /\ x.status < 600 THEN Raise("HTTPError")  \* raise_for_status
    ELSE IF x.body = InvalidJson THEN Raise("JSONDecodeError")    \* response.json()
    ELSE IF ~Truthy(x.body) THEN Return(List(<<>>))
    ELSE IF IsNum(x.body) THEN Raise("TypeError")                 \* len(data)
    ELSE Return(x.body)

fetch_crypto_data(x) ==
    LET body == FetchBody(x)
    IN IF ~Raised(body) THEN body
       ELSE IF body.exc \in RequestExceptions THEN Return(List(<<>>))
       ELSE Return(List(<<>>))

---------------------------------------------------------------------------
(* google_sheets_service.GoogleSheetsService.update_sheet *)

\* rows of Sheet1 that clear() empties: the range A1:H51
ClearRows == 51

columns_to_write ==
    <<"name", "symbol", "current_price", "market_cap", "total_volume",
      "price_change_percentage_24h", "market_cap_rank", "timestamp">>

EmptyRow == <<>>

\* lines 59-85: the header and one row per record, stamped with the time of
\* the call; a column no record has is None; raises what pd.DataFrame raises
SheetData(data, now) ==
    LET made == DataFrame(data)
    IN IF Raised(made) THEN made
       ELSE Return(
              <<[k \in 1..Len(columns_to_write) |-> Str(columns_to_write[k])]>>
              \o [i \in 1..Len(made.ret.rows) |->
                    [k \in 1..Len(columns_to_write) |->
                        IF columns_to_write[k] = "timestamp" THEN Num(now)
                        ELSE IF columns_to_write[k] \in made.ret.columns
                        THEN made.ret.rows[i][columns_to_write[k]]
                        ELSE [none |-> TRUE]]])

RECURSIVE TrimRows(_)
\* a sheet without its trailing empty rows
TrimRows(rows) ==
    IF rows = <<>> THEN <<>>
    ELSE IF rows[Len(rows)] = EmptyRow THEN TrimRows(SubSeq(rows, 1, Len(rows) - 1))
    ELSE rows

\* lines 96-99: values().clear(range='Sheet1!A1:H51')
ClearSheet(rows) ==
    TrimRows([i \in 1..Len(rows) |-> IF i <= ClearRows THEN EmptyRow ELSE rows[i]])

\* lines 103-108: values().update(range='Sheet1!A1:H{end_row}', body=sheet_data)
UpdateSheet(rows, data) ==
    LET end_row == Len(data)
        last == IF Len(rows) > end_row THEN Len(rows) ELSE end_row
    IN [i \in 1..last |-> IF i <= end_row THEN data[i] ELSE rows[i]]

\* how a call of the Sheets API ends: .execute() returns or raises
ApiOutcomes == {"ok", "HttpError"}

---------------------------------------------------------------------------
(* Inputs: provider payloads *)

\* asset records: the three of google_sheets_service.main() and a fourth
Assets ==
    {[name |-> "Bitcoin", symbol |-> "BTC", current_price |-> 50000, market_cap |-> 1000000000],
     [name |-> "Ethereum", symbol |-> "ETH", current_price |-> 2000, market_cap |-> 500000000],
     [name |-> "Litecoin", symbol |-> "LTC", current_price |-> 200, market_cap |-> 100000000],
     [name |-> "Solana", symbol |-> "SOL", current_price |-> 100, market_cap |-> 250000000]}

FullRecord(a) ==
    [name |-> Str(a.name), symbol |-> Str(a.symbol),
     current_price |-> Num(a.current_price), market_cap |-> Num(a.market_cap)]

Without(f, k) == [c \in DOMAIN f \ {k} |-> f[c]]

\* the shapes one asset object can arrive in
Shapes(a) ==
    {Dict(FullRecord(a)),
     Dict(Without(FullRecord(a), "market_cap")),
     Dict(Without(FullRecord(a), "current_price")),
     Dict([FullRecord(a) EXCEPT !.current_price = Str("abc")]),
     Dict([FullRecord(a) EXCEPT !.market_cap = Str("abc")])}

RecordShapes == UNION {Shapes(a) : a \in Assets}

NameOf(r) == r.dict.name.str

\* arrays of at most MaxLen asset objects, no asset twice
AssetLists ==
    {s \in UNION {[1..n -> RecordShapes] : n \in 0..MaxLen} :
        \A i, j \in 1..Len(s) : i # j => NameOf(s[i]) # NameOf(s[j])}

\* payloads that are not an array of asset objects
OddPayloads ==
    {Dict([error |-> Str("rate limited")]), Dict(<<>>), Num(7), Str("oops"),
     List(<<Num(1), Num(2)>>)}

Batches == {List(s) : s \in AssetLists} \cup OddPayloads

\* exchanges with the provider: no response at all, an error status, or a
\* 200 with any body
Exchanges ==
    {[kind |-> "ConnectionError"], [kind |-> "Timeout"]}
    \cup {[kind |-> "response", status |-> st, body |-> b] :
            st \in {404, 429, 500}, b \in OddPayloads \cup {InvalidJson}}
    \cup {[kind |-> "response", status |-> 200, body |-> b] :
            b \in Batches \cup {InvalidJson}}

---------------------------------------------------------------------------
(* Values of the variables a specification does not use *)

None == [none |-> TRUE]

NoCycle == [fetched |-> "none", ec0 |-> 0, analyzed |-> FALSE, emitted |-> <<>>,
            persist |-> "none"]

AnalyzeIdle ==
    /\ batch = List(<<>>)
    /\ result = None
    /\ prev_result = None

HttpIdle ==
    /\ upstream = None
    /\ fetched = None
    /\ http_response = None

SchedulerIdle ==
    /\ sheets_service = None
    /\ pc = "loop"
    /\ error_count = 0
    /\ crypto_data = List(<<>>)
    /\ analysis_results = None
    /\ slept = 0
    /\ sheet_data = <<>>
    /\ sheet = <<>>
    /\ cyc = NoCycle
    /\ fail_run = 0
    /\ fa_fail_run = 0

\* no call of update_sheet from outside the thread (clock.py's job, or any
\* other owner of a GoogleSheetsService) has been made
CallIdle ==
    /\ us_pc = "idle"
    /\ us_arg = List(<<>>)
    /\ us_sheet_data = <<>>
    /\ us_last = "none"

analyzeVars == <<batch, result, prev_result>>
httpVars == <<upstream, fetched, http_response>>
callVars == <<us_pc, us_arg, us_sheet_data, us_last>>
\* the locals of background_update and the history kept of it
bgVars == <<pc, error_count, crypto_data, analysis_results, slept, sheet_data, cyc,
            fail_run, fa_fail_run>>
schedulerVars == <<sheets_service, bgVars, sheet>>

\* time passes
Tick ==
    /\ clock < MaxClock
    /\ clock' = clock + 1
    /\ UNCHANGED <<analyzeVars, httpVars, schedulerVars, callVars>>

---------------------------------------------------------------------------
(* SpecAnalyze: analyze_crypto_data called on every batch *)

InitAnalyze ==
    /\ clock = 0
    /\ batch \in Batches
    /\ result = None
    /\ prev_result = None
    /\ HttpIdle
    /\ SchedulerIdle
    /\ CallIdle

\* a call analyze_crypto_data(batch)
Analyze ==
    /\ result' = analyze_crypto_data(batch, clock)
    /\ prev_result' = result
    /\ batch' = ArgumentAfterAnalysis(batch)
    /\ UNCHANGED <<clock, httpVars, schedulerVars, callVars>>

NextAnalyze == Analyze \/ Tick

SpecAnalyze == InitAnalyze /\ [][NextAnalyze]_vars

---------------------------------------------------------------------------
(* Properties of analyze_crypto_data, stated on the batch itself *)

Range(xs) == {xs[i] : i \in 1..Len(xs)}

\* the k-th smallest of xs, by counting
KthSmallest(xs, k) ==
    CHOOSE v \in Range(xs) :
        /\ Cardinality({i \in 1..Len(xs) : xs[i] < v}) < k
        /\ k <= Cardinality({i \in 1..Len(xs) : xs[i] <= v})

\* m is the arithmetic mean of xs
IsMeanOf(m, xs) ==
    /\ DOMAIN m = {"p", "q"}
    /\ m.q > 0
    /\ GCD(m.p, m.q) = 1
    /\ Len(xs) % m.q = 0
    /\ m.p * (Len(xs) \div m.q) = SumSeq(xs)

\* m is the middle value of xs sorted, the average of the two middle values
\* when xs has even length
IsMedianOf(m, xs) ==
    LET n == Len(xs)
        lo == KthSmallest(xs, (n + 1) \div 2)
        hi == KthSmallest(xs, n \div 2 + 1)
    IN /\ DOMAIN m = {"p", "q"}
       /\ m.q \in {1, 2}
       /\ GCD(m.p, m.q) = 1
       /\ m.p * (2 \div m.q) = lo + hi

IsWhole(m, x) == m = [p |-> x, q |-> 1]

HasNum(r, k) == IsDict(r) /\ k \in DOMAIN r.dict /\ IsNum(r.dict[k])
Lacks(r, k) == IsDict(r) /\ k \notin DOMAIN r.dict

\* a non-empty batch with every price and every market cap present
AllPresent(b) ==
    /\ IsList(b)
    /\ Len(b.list) > 0
    /\ \A i \in 1..Len(b.list) :
          HasNum(b.list[i], "current_price") /\ HasNum(b.list[i], "market_cap")

\* at least two records, every price present, some but not all records
\* without market_cap and the others with a numeric one
SomeCapsMissing(b) ==
    /\ IsList(b)
    /\ Len(b.list) >= 2
    /\ \A i \in 1..Len(b.list) :
          /\ HasNum(b.list[i], "current_price")
          /\ HasNum(b.list[i], "market_cap") \/ Lacks(b.list[i], "market_cap")
    /\ \E i \in 1..Len(b.list) : Lacks(b.list[i], "market_cap")
    /\ \E i \in 1..Len(b.list) : HasNum(b.list[i], "market_cap")

PricesOf(b) == [i \in 1..Len(b.list) |-> b.list[i].dict.current_price.num]

\* the market caps of b, 0 for a record without one
CapsOrZero(b) ==
    [i \in 1..Len(b.list) |->
        IF HasNum(b.list[i], "market_cap") THEN b.list[i].dict.market_cap.num ELSE 0]

PriceKeys == {"mean_price", "median_price", "price_std_dev", "min_price", "max_price"}
CapKeys == {"total_market_cap", "mean_market_cap", "median_market_cap"}

\* all five price statistics, all three market-cap aggregates and a timestamp
CompleteSummary(r) ==
    /\ DOMAIN r = {"price_statistics", "market_cap_insights", "timestamp"}
    /\ DOMAIN r.price_statistics = PriceKeys
    /\ DOMAIN r.market_cap_insights = CapKeys

\* an error summary: a timestamp and none of the statistics
ErrorSummary(r) ==
    /\ {"error", "timestamp"} \subseteq DOMAIN r
    /\ DOMAIN r \subseteq {"error", "details", "timestamp"}

Called == result # None

BitcoinEthereum ==
    List(<<Dict([name |-> Str("Bitcoin"), symbol |-> Str("BTC"),
                 current_price |-> Num(50000), market_cap |-> Num(1000000000)]),
           Dict([name |-> Str("Ethereum"), symbol |-> Str("ETH"),
                 current_price |-> Num(2000), market_cap |-> Num(500000000)])>>)

\* C8: for a batch of two or more records of which some, not all, lack
\* market_cap, total, mean and median market cap are those of the caps with
\* 0 in the place of each missing one.
C8_MissingCapCountsAsZero ==
    (Called /\ SomeCapsMissing(batch)) =>
        /\ ~Raised(result)
        /\ CompleteSummary(result.ret)
        /\ IsWhole(result.ret.market_cap_insights.total_market_cap,
                   SumSeq(CapsOrZero(batch)))
        /\ IsMeanOf(result.ret.market_cap_insights.mean_market_cap, CapsOrZero(batch))
        /\ IsMedianOf(result.ret.market_cap_insights.median_market_cap, CapsOrZero(batch))

\* C9: on every batch analyze_crypto_data returns, and what it returns has a
\* timestamp and either all eight statistics or none of them; for the empty
\* batch it is the no-data summary.
C9_SummaryNeverPartial ==
    Called =>
        /\ ~Raised(result)
        /\ "timestamp" \in DOMAIN result.ret
        /\ CompleteSummary(result.ret) \/ ErrorSummary(result.ret)
        /\ batch = List(<<>>) =>
              result.ret = [error |-> "No data available for analysis",
                            timestamp |-> result.ret.timestamp]

\* C9 witness: a batch whose prices are fine and whose market cap is not a
\* number has been analysed, and the result is an error summary
C9_Witness ==
    /\ Called
    /\ IsList(batch) /\ Len(batch.list) = 2
    /\ \A i \in 1..2 : HasNum(batch.list[i], "current_price")
    /\ \E i \in 1..2 : /\ "market_cap" \in DOMAIN batch.list[i].dict
                         /\ IsStr(batch.list[i].dict.market_cap)
    /\ ~Raised(result)
    /\ ErrorSummary(result.ret)

\* C10: for a non-empty batch with every price and market cap present,
\* mean_price is the arithmetic mean, median_price the middle value of the
\* sorted prices (the average of the two middle ones for an even length),
\* min_price and max_price the extrema and total_market_cap the sum of the
\* caps; Bitcoin and Ethereum give 26000, 26000, 2000, 50000 and 1.5e9.
C10_StatisticsOfFullBatch ==
    (Called /\ AllPresent(batch)) =>
        /\ ~Raised(result)
        /\ CompleteSummary(result.ret)
        /\ LET ps == result.ret.price_statistics
               xs == PricesOf(batch)
           IN /\ IsMeanOf(ps.mean_price, xs)
              /\ IsMedianOf(ps.median_price, xs)
              /\ IsWhole(ps.min_price, KthSmallest(xs, 1))
              /\ IsWhole(ps.max_price, KthSmallest(xs, Len(xs)))
        /\ IsWhole(result.ret.market_cap_insights.total_market_cap,
                   SumSeq(CapsOrZero(batch)))
        /\ batch = BitcoinEthereum =>
              /\ result.ret.price_statistics.mean_price = [p |-> 26000, q |-> 1]
              /\ result.ret.price_statistics.median_price = [p |-> 26000, q |-> 1]
              /\ result.ret.price_statistics.min_price = [p |-> 2000, q |-> 1]
              /\ result.ret.price_statistics.max_price = [p |-> 50000, q |-> 1]
              /\ result.ret.market_cap_insights.total_market_cap
                    = [p |-> 1500000000, q |-> 1]

\* C10 witness: the two-record example has been analysed
C10_Witness ==
    /\ Called
    /\ batch = BitcoinEthereum
    /\ ~Raised(result)
    /\ CompleteSummary(result.ret)

---------------------------------------------------------------------------
(* SpecHttp: GET /crypto-data *)

\* app.get_crypto_data, given the outcome of its fetch_crypto_data() call
get_crypto_data(f, now) ==
    LET analysis == IF Raised(f) THEN f ELSE analyze_crypto_data(f.ret, now)
    IN IF Raised(analysis)
       THEN [status |-> 500,
             body |-> [error |-> "Failed to fetch crypto data", details |-> analysis.exc]]
       ELSE [status |-> 200,
             body |-> [data |-> f.ret, analysis |-> analysis.ret, timestamp |-> now]]

\* one request to /crypto-data, the provider answering with upstream
GetCryptoData ==
    /\ fetched' = fetch_crypto_data(upstream)
    /\ http_response' = get_crypto_data(fetch_crypto_data(upstream), clock)
    /\ UNCHANGED <<clock, upstream, analyzeVars, schedulerVars, callVars>>

InitHttp ==
    /\ clock = 0
    /\ AnalyzeIdle
    /\ upstream \in Exchanges
    /\ fetched = None
    /\ http_response = None
    /\ SchedulerIdle
    /\ CallIdle

NextHttp == GetCryptoData \/ Tick

SpecHttp == InitHttp /\ [][NextHttp]_vars

\* the exchange is one of fetch's failure cases: no response, a status
\* outside 2xx, a body that is not JSON or not an array of asset objects
FetchFailure(x) ==
    \/ x.kind # "response"
    \/ x.status < 200 \/ x.status > 299
    \/ x.body = InvalidJson
    \/ ~IsList(x.body)
    \/ \E i \in 1..Len(x.body.list) : ~IsDict(x.body.list[i])

Requested == http_response # None

\* C6: fetch_crypto_data never raises, and returns the empty batch in every
\* failure case: network failure or timeout, a non-2xx response, a malformed
\* payload, a JSON payload that is not an array of asset objects.
C6_FetchFailureGivesEmptyBatch ==
    Requested =>
        /\ ~Raised(fetched)
        /\ FetchFailure(upstream) => fetched = Return(List(<<>>))

\* C7: GET /crypto-data answers {error, details} with a 5xx status when the
\* fetch or the analysis failed, and {data, analysis, timestamp} with a
\* success status only when both succeeded.
C7_RouteSurfacesFailure ==
    Requested =>
        LET failed == \/ Raised(fetched)
                      \/ FetchFailure(upstream)
                      \/ ~CompleteSummary(analyze_crypto_data(fetched.ret, clock).ret)
        IN /\ failed => /\ http_response.status >= 500
                        /\ DOMAIN http_response.body = {"error", "details"}
           /\ ~failed => /\ http_response.status = 200
                         /\ DOMAIN http_response.body = {"data", "analysis", "timestamp"}
---------------------------------------------------------------------------
(* Spec: app.background_update *)

max_errors == 5
\* time.sleep after a failed cycle and after a successful one, in seconds
ErrorBackoff == 60
NormalInterval == 300

\* the provider's answers to the background thread's requests
SchedulerExchanges ==
    {[kind |-> "ConnectionError"],
     [kind |-> "response", status |-> 500, body |-> InvalidJson],
     [kind |-> "response", status |-> 200, body |-> List(<<>>)],
     [kind |-> "response", status |-> 200, body |-> Dict([error |-> Str("rate limited")])],
     [kind |-> "response", status |-> 200, body |-> BitcoinEthereum],
     [kind |-> "response", status |-> 200,
      body |-> List(<<Dict([name |-> Str("Litecoin"), symbol |-> Str("LTC"),
                            current_price |-> Num(200)])>>)],
     [kind |-> "response", status |-> 200,
      body |-> List(<<Dict([name |-> Str("Solana"), symbol |-> Str("SOL"),
                            current_price |-> Str("abc"),
                            market_cap |-> Num(250000000)])>>)]}

\* the GoogleSheetsService object app.py builds at import
Service == [SPREADSHEET_ID |-> "1bnq2a1ulUm3QYSeBu8Gc9WjcUCbw1gKpGyBPGDcG3kM"]

Init ==
    /\ clock = 0
    /\ AnalyzeIdle
    /\ HttpIdle
    /\ sheets_service \in {None, Service}
    /\ pc = "loop"
    /\ error_count = 0
    /\ crypto_data = List(<<>>)
    /\ analysis_results = None
    /\ slept = 0
    /\ sheet_data = <<>>
    /\ sheet = <<>>
    /\ cyc = NoCycle
    /\ fail_run = 0
    /\ fa_fail_run = 0
    /\ CallIdle

\* the while condition off by one: error_count <= max_errors
LoopCondition_OffByOne(count) == count <= max_errors

\* line 48: the while condition
LoopCondition(count) == count < max_errors

\* lines 78-81: the except block; stage is where the cycle failed
Except(stage) ==
    /\ error_count' = error_count + 1
    /\ slept' = ErrorBackoff
    /\ pc' = "sleep"
    /\ fail_run' = fail_run + 1
    /\ fa_fail_run' = IF stage = "persist" THEN fa_fail_run ELSE fa_fail_run + 1

\* lines 72-76: the end of a cycle nothing failed in
CycleDone ==
    /\ error_count' = 0
    /\ slept' = NormalInterval
    /\ pc' = "sleep"
    /\ fail_run' = 0

\* line 83: the loop is left
BgHalt ==
    /\ pc = "loop"
    /\ ~LoopCondition(error_count)
    /\ pc' = "halted"
    /\ UNCHANGED <<clock, analyzeVars, httpVars, callVars, sheets_service, sheet,
                   error_count,
                   crypto_data, analysis_results, slept, sheet_data, cyc, fail_run,
                   fa_fail_run>>

\* BgFetch without the `continue` of line 57: an empty batch is counted and
\* the cycle goes on to the analysis
BgFetch_NoContinue ==
    /\ pc = "loop"
    /\ LoopCondition(error_count)
    /\ \E x \in SchedulerExchanges :
          LET f == fetch_crypto_data(x)
              started == [NoCycle EXCEPT !.ec0 = error_count]
          IN /\ ~Raised(f)
             /\ crypto_data' = f.ret
             /\ pc' = "analyze"
             /\ IF ~Truthy(f.ret)
                THEN /\ cyc' = [started EXCEPT !.fetched = "empty"]
                     /\ error_count' = error_count + 1
                     /\ slept' = ErrorBackoff
                     /\ fail_run' = fail_run + 1
                     /\ fa_fail_run' = fa_fail_run + 1
                ELSE /\ cyc' = [started EXCEPT !.fetched = "nonempty"]
                     /\ UNCHANGED <<error_count, slept, fail_run, fa_fail_run>>
    /\ UNCHANGED <<clock, analyzeVars, httpVars, callVars, sheets_service, sheet,
                   analysis_results, sheet_data>>

\* lines 51-57: a cycle starts with fetch_crypto_data(), answered with x
BgFetch ==
    /\ pc = "loop"
    /\ LoopCondition(error_count)
    /\ \E x \in SchedulerExchanges :
          LET f == fetch_crypto_data(x)
              started == [NoCycle EXCEPT !.ec0 = error_count]
          IN IF Raised(f)
             THEN /\ Except("fetch")
                  /\ cyc' = [started EXCEPT !.fetched = "raised"]
                  /\ UNCHANGED crypto_data
             ELSE IF ~Truthy(f.ret)
             THEN /\ crypto_data' = f.ret
                  /\ cyc' = [started EXCEPT !.fetched = "empty"]
                  /\ error_count' = error_count + 1
                  /\ slept' = ErrorBackoff
                  /\ pc' = "sleep"
                  /\ fail_run' = fail_run + 1
                  /\ fa_fail_run' = fa_fail_run + 1
             ELSE /\ crypto_data' = f.ret
                  /\ cyc' = [started EXCEPT !.fetched = "nonempty"]
                  /\ pc' = "analyze"
                  /\ UNCHANGED <<error_count, slept, fail_run, fa_fail_run>>
    /\ UNCHANGED <<clock, analyzeVars, httpVars, callVars, sheets_service, sheet,
                   analysis_results, sheet_data>>

\* line 60
BgAnalyze ==
    /\ pc = "analyze"
    /\ LET a == analyze_crypto_data(crypto_data, clock)
       IN IF Raised(a)
          THEN /\ Except("analyze")
               /\ UNCHANGED <<analysis_results, cyc>>
          ELSE /\ analysis_results' = a.ret
               /\ cyc' = [cyc EXCEPT !.analyzed = TRUE]
               /\ fa_fail_run' = 0
               /\ pc' = "emit"
               /\ UNCHANGED <<error_count, slept, fail_run>>
    /\ UNCHANGED <<clock, analyzeVars, httpVars, callVars, sheets_service, sheet,
                   crypto_data,
                   sheet_data>>

\* BgEmit with the emit moved behind the spreadsheet update: nothing is
\* emitted before update_sheet is called
BgEmit_AfterPersist ==
    /\ pc = "emit"
    /\ IF sheets_service # None
       THEN /\ pc' = "update_sheet"
            /\ UNCHANGED <<error_count, slept, fail_run, cyc>>
       ELSE /\ cyc' = [cyc EXCEPT !.emitted =
                          Append(@, [event |-> "crypto_update", data |-> crypto_data,
                                     analysis |-> analysis_results])]
            /\ CycleDone
    /\ UNCHANGED <<clock, analyzeVars, httpVars, callVars, sheets_service, sheet,
                   crypto_data,
                   analysis_results, sheet_data, fa_fail_run>>

\* lines 63-69: socketio.emit, then the test of sheets_service
BgEmit ==
    /\ pc = "emit"
    /\ cyc' = [cyc EXCEPT !.emitted =
                  Append(@, [event |-> "crypto_update", data |-> crypto_data,
                             analysis |-> analysis_results])]
    /\ IF sheets_service # None
       THEN /\ pc' = "update_sheet"
            /\ UNCHANGED <<error_count, slept, fail_run>>
       ELSE CycleDone
    /\ UNCHANGED <<clock, analyzeVars, httpVars, callVars, sheets_service, sheet,
                   crypto_data,
                   analysis_results, sheet_data, fa_fail_run>>

\* line 70, update_sheet lines 57-99: the sheet data is prepared and the
\* range cleared
BgSheetClear ==
    /\ pc = "update_sheet"
    /\ \E api \in ApiOutcomes :
          LET prepared == SheetData(crypto_data, clock)
          IN IF Raised(prepared) \/ api # "ok"
             THEN /\ Except("persist")
                  /\ cyc' = [cyc EXCEPT !.persist = "failed"]
                  /\ UNCHANGED <<sheet, sheet_data>>
             ELSE /\ sheet_data' = prepared.ret
                  /\ sheet' = ClearSheet(sheet)
                  /\ cyc' = [cyc EXCEPT !.persist = "cleared"]
                  /\ pc' = "sheet_update"
                  /\ UNCHANGED <<error_count, slept, fail_run, fa_fail_run>>
    /\ UNCHANGED <<clock, analyzeVars, httpVars, callVars, sheets_service,
                   crypto_data,
                   analysis_results>>

\* update_sheet lines 102-115, then lines 72-76
BgSheetUpdate ==
    /\ pc = "sheet_update"
    /\ \E api \in ApiOutcomes :
          IF api # "ok"
          THEN /\ Except("persist")
               /\ cyc' = [cyc EXCEPT !.persist = "failed"]
               /\ UNCHANGED sheet
          ELSE /\ sheet' = UpdateSheet(sheet, sheet_data)
               /\ cyc' = [cyc EXCEPT !.persist = "written"]
               /\ CycleDone
               /\ UNCHANGED fa_fail_run
    /\ UNCHANGED <<clock, analyzeVars, httpVars, callVars, sheets_service,
                   crypto_data,
                   analysis_results, sheet_data>>

\* time.sleep returns
BgWake ==
    /\ pc = "sleep"
    /\ pc' = "loop"
    /\ UNCHANGED <<clock, analyzeVars, httpVars, callVars, sheets_service, sheet,
                   error_count,
                   crypto_data, analysis_results, slept, sheet_data, cyc, fail_run,
                   fa_fail_run>>

Next ==
    \/ BgHalt
    \/ BgFetch
    \/ BgAnalyze
    \/ BgEmit
    \/ BgSheetClear
    \/ BgSheetUpdate
    \/ BgWake
    \/ Tick

Spec == Init /\ [][Next]_vars
---------------------------------------------------------------------------
(* Properties of background_update *)

\* the cycle cyc describes is over: the thread sleeps, is back at the loop
\* test, or has left the loop
CycleOver == pc \in {"sleep", "loop", "halted"}

\* the fetch of the cycle returned a non-empty batch and its analysis completed
FetchedAndAnalyzed == cyc.fetched = "nonempty" /\ cyc.analyzed

\* C1: once max_errors = 5 consecutive cycles have failed the thread leaves
\* the loop at its next step, and it leaves it only then; after that it
\* calls fetch no more, emits nothing and does not touch the spreadsheet.
C1_HaltAfterFiveFailuresIsFinal ==
    [][/\ (pc = "loop" /\ fail_run >= max_errors /\ bgVars' # bgVars) => pc' = "halted"
       /\ (fail_run >= max_errors) => cyc' = cyc
       /\ (pc # "halted" /\ pc' = "halted") => fail_run = max_errors
       /\ pc = "halted" => UNCHANGED <<bgVars, sheet>>]_vars

\* C1 witness: the thread has left the loop after five failed cycles
C1_Witness == pc = "halted" /\ fail_run = max_errors /\ error_count = max_errors

\* C2: after a cycle whose fetch returned a non-empty batch, whose analysis
\* completed and whose update_sheet raised, the counter is not greater than
\* before the cycle; persist failures alone never halt the thread.
C2_PersistFailureNotCounted ==
    /\ (CycleOver /\ FetchedAndAnalyzed /\ cyc.persist = "failed")
          => error_count <= cyc.ec0
    /\ pc = "halted" => fa_fail_run > 0

\* C3: a cycle whose fetch returned a non-empty batch and whose analysis
\* completed ends with the counter at zero, and the thread halts only after
\* five cycles in a row failed at fetch or analysis.
C3_CounterResetByFetchAndAnalyze ==
    /\ (CycleOver /\ FetchedAndAnalyzed) => error_count = 0
    /\ pc = "halted" => fa_fail_run >= max_errors

\* the crypto_update event of the cycle
CycleEvent ==
    [event |-> "crypto_update", data |-> crypto_data, analysis |-> analysis_results]

\* C4: a cycle whose fetch returned a non-empty batch emits exactly one
\* crypto_update with the batch and its analysis, before update_sheet is
\* called; the persist succeeding, failing or being skipped changes nothing.
C4_OneEventBeforePersist ==
    /\ Len(cyc.emitted) <= 1
    /\ cyc.persist # "none" => cyc.emitted = <<CycleEvent>>
    /\ pc \in {"update_sheet", "sheet_update"} => cyc.emitted = <<CycleEvent>>
    /\ (CycleOver /\ cyc.fetched = "nonempty") =>
          /\ cyc.emitted = <<CycleEvent>>
          /\ CycleEvent.data = crypto_data
          /\ Truthy(CycleEvent.data)
          /\ CycleEvent.analysis
                = analyze_crypto_data(crypto_data, CycleEvent.analysis.timestamp).ret

\* C4 witness: a cycle whose update_sheet failed is over, its event emitted
C4_Witness ==
    /\ pc = "sleep"
    /\ cyc.fetched = "nonempty"
    /\ cyc.persist = "failed"
    /\ cyc.emitted = <<CycleEvent>>

\* C5: a cycle whose fetch failed or returned an empty batch adds exactly one
\* to the counter and does no analysis, no emit and no spreadsheet write
\* before the next fetch.
C5_EmptyFetchCountsOnce ==
    cyc.fetched = "empty" =>
        /\ CycleOver
        /\ error_count = cyc.ec0 + 1
        /\ ~cyc.analyzed
        /\ cyc.emitted = <<>>
        /\ cyc.persist = "none"
        /\ ~Truthy(crypto_data)

\* C5 witness: the third failed fetch in a row
C5_Witness ==
    /\ pc = "sleep"
    /\ cyc.fetched = "empty"
    /\ cyc.ec0 = 2
    /\ error_count = 3

\* the analysis of the cycle returned an error summary
AnalysisFailed == cyc.analyzed /\ ErrorSummary(analysis_results)

\* C14: a cycle in which the analysis of a non-empty batch fails adds one to
\* the counter and does not reset it, and emits no crypto_update and makes
\* no spreadsheet clear or write.
C14_FailedAnalysisIsAFailedCycle ==
    /\ AnalysisFailed => cyc.emitted = <<>> /\ cyc.persist = "none"
    /\ (CycleOver /\ AnalysisFailed) => error_count = cyc.ec0 + 1

\* C15: the thread sleeps NormalInterval after every cycle whose fetch
\* returned a non-empty batch and whose analysis gave the statistics,
\* whatever update_sheet did, and ErrorBackoff after every other cycle.
C15_SleepDecidedByFetchAndAnalyze ==
    pc = "sleep" =>
        slept = IF FetchedAndAnalyzed /\ ~AnalysisFailed THEN NormalInterval
                ELSE ErrorBackoff

---------------------------------------------------------------------------
(* SpecSheet: update_sheet called, one call after the other, with batches
   of every size around the cleared range *)

\* a batch of n records, as a caller hands it to update_sheet
RankedBatch(n) ==
    List([i \in 1..n |-> Dict([name |-> Str("asset"), market_cap_rank |-> Num(i)])])

\* batch sizes: none, few, the most the cleared range holds under the
\* header, and one more
SheetBatchSizes == {0, 1, 2, ClearRows - 1, ClearRows}

SheetBatches ==
    {RankedBatch(n) : n \in SheetBatchSizes} \cup {Dict([error |-> Str("rate limited")])}

\* a caller enters update_sheet(b)
UpdateSheetCall ==
    /\ us_pc = "idle"
    /\ \E b \in SheetBatches : us_arg' = b
    /\ us_pc' = "update_sheet"
    /\ us_last' = "none"
    /\ UNCHANGED <<clock, analyzeVars, httpVars, schedulerVars, us_sheet_data>>

\* update_sheet lines 57-99: the sheet data is prepared and the range
\* cleared; lines 113-115 on an exception
CallSheetClear ==
    /\ us_pc = "update_sheet"
    /\ \E api \in ApiOutcomes :
          LET prepared == SheetData(us_arg, clock)
          IN IF Raised(prepared) \/ api # "ok"
             THEN /\ us_pc' = "idle"
                  /\ us_last' = "failed"
                  /\ UNCHANGED <<sheet, us_sheet_data>>
             ELSE /\ us_sheet_data' = prepared.ret
                  /\ sheet' = ClearSheet(sheet)
                  /\ us_last' = "cleared"
                  /\ us_pc' = "sheet_update"
    /\ UNCHANGED <<clock, analyzeVars, httpVars, sheets_service, bgVars, us_arg>>

\* update_sheet lines 102-115: the rows are written to A1:H{end_row}
CallSheetUpdate ==
    /\ us_pc = "sheet_update"
    /\ \E api \in ApiOutcomes :
          IF api # "ok"
          THEN /\ us_last' = "failed"
               /\ UNCHANGED sheet
          ELSE /\ sheet' = UpdateSheet(sheet, us_sheet_data)
               /\ us_last' = "written"
    /\ us_pc' = "idle"
    /\ UNCHANGED <<clock, analyzeVars, httpVars, sheets_service, bgVars, us_arg,
                   us_sheet_data>>

InitSheet ==
    /\ clock = 0
    /\ AnalyzeIdle
    /\ HttpIdle
    /\ SchedulerIdle
    /\ CallIdle

NextSheet ==
    \/ Tick
    \/ UpdateSheetCall
    \/ CallSheetClear
    \/ CallSheetUpdate

SpecSheet == InitSheet /\ [][NextSheet]_vars

\* the call of update_sheet has returned or raised
CallOver == us_pc = "idle" /\ us_last \in {"written", "failed"}

\* C11: a call of update_sheet with more than 50 records (header and rows
\* exceed the 51 rows of A1:H51) ends in an exception, and no row below
\* row 51 of the sheet is ever written.
C11_OverflowIsRefused ==
    /\ (CallOver /\ IsList(us_arg) /\ Len(us_arg.list) + 1 > ClearRows)
          => us_last = "failed"
    /\ Len(sheet) <= ClearRows

---------------------------------------------------------------------------
(* Claims about the standard deviation and the purity of the analysis,
   under SpecAnalyze *)

\* the sum over the pairs i < j of (xs[i] - xs[j])^2
PairSqDiff(xs) ==
    LET pairs == {<<i, j>> \in (1..Len(xs)) \X (1..Len(xs)) : i < j}
        RECURSIVE Sum(_)
        Sum(ps) == IF ps = {} THEN 0
                   ELSE LET pr == CHOOSE q \in ps : TRUE
                        IN (xs[pr[1]] - xs[pr[2]]) * (xs[pr[1]] - xs[pr[2]])
                           + Sum(ps \ {pr})
    IN Sum(pairs)

\* sd is the sample standard deviation of xs (divisor N-1): sd.scale is a
\* common factor of xs, and sd.radicand the sample variance of xs / sd.scale,
\* which is the sum of the squared pairwise differences over N(N-1)
IsSampleStdOf(sd, xs) ==
    LET n == Len(xs)
    IN /\ DOMAIN sd = {"scale", "radicand"}
       /\ sd.scale > 0
       /\ \A i \in 1..n : xs[i] % sd.scale = 0
       /\ sd.radicand.q > 0
       /\ sd.radicand.p * n * (n - 1)
             = sd.radicand.q * PairSqDiff([i \in 1..n |-> xs[i] \div sd.scale])

\* sd is the number 0.0
IsZeroStd(sd) ==
    /\ DOMAIN sd = {"scale", "radicand"}
    /\ sd.radicand.p = 0

\* C12: on a batch of one record price_std_dev is the number 0.0, not NaN;
\* on a batch of two or more records it is the sample standard deviation
\* of the prices (divisor N-1).
C12_StdDevDefined ==
    (Called /\ AllPresent(batch)) =>
        /\ ~Raised(result)
        /\ CompleteSummary(result.ret)
        /\ LET sd == result.ret.price_statistics.price_std_dev
               xs == PricesOf(batch)
           IN /\ Len(xs) = 1 => IsZeroStd(sd)
              /\ Len(xs) >= 2 => IsSampleStdOf(sd, xs)

\* the half of C12 the code meets: two or more records
SampleStdOfTwoOrMore ==
    (Called /\ AllPresent(batch) /\ Len(batch.list) >= 2) =>
        IsSampleStdOf(result.ret.price_statistics.price_std_dev, PricesOf(batch))

\* two outcomes of analyze_crypto_data that differ in the timestamp at most
SameStatistics(a, b) ==
    /\ ~Raised(a) /\ ~Raised(b)
    /\ Without(a.ret, "timestamp") = Without(b.ret, "timestamp")

---------------------------------------------------------------------------
(* Claims about the sheet, under SpecSheet *)

\* the header row and one row per record of the batch b, in the order of b
HeaderAndRowsOf(rows, b) ==
    /\ Len(rows) = Len(b.list) + 1
    /\ rows[1] = [k \in 1..Len(columns_to_write) |-> Str(columns_to_write[k])]
    /\ \A i \in 1..Len(b.list) :
          /\ rows[i + 1][1] = b.list[i].dict.name
          /\ rows[i + 1][7] = b.list[i].dict.market_cap_rank

\* C16: once a call of update_sheet has returned, the sheet holds the header
\* and one row per record of that call's batch, in order, and nothing that
\* an earlier call wrote.
C16_SheetHoldsLastBatchOnly ==
    (us_pc = "idle" /\ us_last = "written") =>
        /\ sheet = us_sheet_data
        /\ HeaderAndRowsOf(sheet, us_arg)

---------------------------------------------------------------------------
(* SpecWriters: app.py's background thread and clock.py's interval job,
   two processes on the same spreadsheet *)

\* the provider's answers to the job's requests
ClockExchanges ==
    {[kind |-> "ConnectionError"],
     [kind |-> "response", status |-> 200, body |-> BitcoinEthereum],
     [kind |-> "response", status |-> 200,
      body |-> List(<<Dict([name |-> Str("Litecoin"), symbol |-> Str("LTC"),
                            current_price |-> Num(200)])>>)]}

\* clock.py lines 7-11: the job builds a GoogleSheetsService, fetches and
\* enters update_sheet with what the fetch returned; one instance of the job
\* runs at a time.  A constructor that raises ends the job with no effect.
ClockJob ==
    /\ us_pc = "idle"
    /\ \E x \in ClockExchanges : us_arg' = fetch_crypto_data(x).ret
    /\ us_pc' = "update_sheet"
    /\ us_last' = "none"
    /\ UNCHANGED <<clock, analyzeVars, httpVars, schedulerVars, us_sheet_data>>

\* the steps of the two processes; the time of day, which only the
\* timestamps show, stands still
NextWriters ==
    \/ BgHalt
    \/ BgFetch
    \/ BgAnalyze
    \/ BgEmit
    \/ BgSheetClear
    \/ BgSheetUpdate
    \/ BgWake
    \/ ClockJob
    \/ CallSheetClear
    \/ CallSheetUpdate

SpecWriters == Init /\ [][NextWriters]_vars

\* C17: the clear and write steps of two executions of update_sheet never
\* interleave, and whenever no execution is between its clear and its write
\* a sheet that is not empty holds the rows of one execution only.
C17_SingleWriter ==
    /\ ~(pc = "sheet_update" /\ us_pc = "sheet_update")
    /\ (pc # "sheet_update" /\ us_pc # "sheet_update" /\ sheet # <<>>)
          => sheet \in {sheet_data, us_sheet_data}

\* C18: update_sheet is entered with a non-empty batch only, by the
\* background thread and by the interval job, so no clear and no write is
\* made for a failed or empty fetch.
C18_UpdateSheetOnlyWithData ==
    /\ pc \in {"update_sheet", "sheet_update"} => Truthy(crypto_data)
    /\ us_pc \in {"update_sheet", "sheet_update"} => Truthy(us_arg)
    /\ us_last \in {"cleared", "written"} => Truthy(us_arg)

---------------------------------------------------------------------------
(* SpecRoute: GET /crypto-data served while the background thread runs *)

\* RouteRequest with the failure counter shared with the route: a request
\* whose fetch comes back empty is counted
RouteRequest_CountsFailure ==
    /\ \E x \in SchedulerExchanges :
          /\ upstream' = x
          /\ fetched' = fetch_crypto_data(x)
          /\ http_response' = get_crypto_data(fetch_crypto_data(x), clock)
          /\ error_count' = IF Truthy(fetch_crypto_data(x).ret) THEN error_count
                            ELSE error_count + 1
    /\ UNCHANGED <<clock, analyzeVars, callVars, sheets_service, sheet, pc, crypto_data,
                   analysis_results, slept, sheet_data, cyc, fail_run, fa_fail_run>>

\* app.py lines 98-116: one request to /crypto-data, handled by a thread of
\* the server between two steps of background_update; data and analysis are
\* locals of the handler
RouteRequest ==
    /\ \E x \in SchedulerExchanges :
          /\ upstream' = x
          /\ fetched' = fetch_crypto_data(x)
          /\ http_response' = get_crypto_data(fetch_crypto_data(x), clock)
    /\ UNCHANGED <<clock, analyzeVars, schedulerVars, callVars>>

\* the steps of the thread and the requests; the time of day stands still
NextRoute ==
    \/ BgHalt
    \/ BgFetch
    \/ BgAnalyze
    \/ BgEmit
    \/ BgSheetClear
    \/ BgSheetUpdate
    \/ BgWake
    \/ RouteRequest

SpecRoute == Init /\ [][NextRoute]_vars

\* C19: a step that handles GET /crypto-data leaves the counter, the events
\* emitted, the sheet and every other local of the background thread as
\* they were, whether its fetch failed or not; the counter changes only in
\* a step of the thread.
C19_RouteLeavesSchedulerAlone ==
    [][/\ httpVars' # httpVars => UNCHANGED <<schedulerVars, callVars>>
       /\ error_count' # error_count => pc # "halted" /\ pc' # pc
      ]_vars

\* C19 witness: a request whose fetch failed has been answered, and the
\* thread, one failed cycle behind it, is between the clear and the write of
\* the sheet
C19_Witness ==
    /\ Requested
    /\ upstream = [kind |-> "ConnectionError"]
    /\ fetched = Return(List(<<>>))
    /\ pc = "sheet_update"
    /\ error_count = 1
    /\ cyc.emitted # <<>>

====
